---- MODULE Spec2Model ----
(***************************************************************************)
(* Model of sthal-to-cpp (src/src/main.rs): the batch driver `main`, the   *)
(* per-file pipeline `parse_file`, the handle-type resolver                *)
(* `find_handle_types`, the method synthesizers `handle_functions` and     *)
(* `static_functions`, and the emitter `generate_code`.                    *)
(*                                                                         *)
(* A Rust string is modelled as the sequence of its characters, each a     *)
(* one-character string, so that prefix, suffix, substring, split and case *)
(* operations are computed as the code computes them.  Option<T> is the    *)
(* record None / Some(x).                                                  *)
(***************************************************************************)
EXTENDS Integers, Sequences, FiniteSets, TLC

VARIABLES
    files,      \* main: the glob entries still to be iterated, in order
    idx,        \* main: number of entries of `files` consumed by the for loop
    log,        \* main: one record per consumed entry (what parse_file did)
    outdir,     \* file system: output path -> content written
    exitCode,   \* process exit status once main has ended (-1 while running)
    pc,         \* control point
    inp,        \* argument of the pure function under check
    out         \* its result

vars == <<files, idx, log, outdir, exitCode, pc, inp, out>>

None == [some |-> FALSE]
Some(x) == [some |-> TRUE, val |-> x]

(***************************************************************************)
(* Bounds of the model.                                                    *)
(***************************************************************************)
MaxFileTokens == 5
MaxNameTokens == 4
MaxDecls == 3
MaxFiles == 2

(***************************************************************************)
(* std::str operations.                                                    *)
(***************************************************************************)
Min(S) == CHOOSE m \in S : \A n \in S : m <= n
Max(S) == CHOOSE m \in S : \A n \in S : m >= n

Occurrences(s, p) == {i \in 1..(Len(s) - Len(p) + 1) : SubSeq(s, i, i + Len(p) - 1) = p}

\* str::find: index of the first match, 0 when there is none
Find(s, p) == LET occ == Occurrences(s, p) IN IF occ = {} THEN 0 ELSE Min(occ)

\* str::rfind
RFind(s, p) == LET occ == Occurrences(s, p) IN IF occ = {} THEN 0 ELSE Max(occ)

Contains(s, p) == Occurrences(s, p) # {}

StartsWith(s, p) == Len(p) <= Len(s) /\ SubSeq(s, 1, Len(p)) = p

EndsWith(s, p) == Len(p) <= Len(s) /\ SubSeq(s, Len(s) - Len(p) + 1, Len(s)) = p

StripPrefix(s, p) == IF StartsWith(s, p) THEN Some(SubSeq(s, Len(p) + 1, Len(s))) ELSE None

StripSuffix(s, p) == IF EndsWith(s, p) THEN Some(SubSeq(s, 1, Len(s) - Len(p))) ELSE None

\* Option::unwrap_or
UnwrapOr(o, d) == IF o.some THEN o.val ELSE d

\* str::split_once(c): around the first occurrence of c
SplitOnce(s, c) ==
    LET i == Find(s, c)
    IN  IF i = 0 THEN None
        ELSE Some(<<SubSeq(s, 1, i - 1), SubSeq(s, i + Len(c), Len(s))>>)

\* str::rsplit_once(c): around the last occurrence of c
RSplitOnce(s, c) ==
    LET i == RFind(s, c)
    IN  IF i = 0 THEN None
        ELSE Some(<<SubSeq(s, 1, i - 1), SubSeq(s, i + Len(c), Len(s))>>)

\* str::replace(p, ""): every non-overlapping match of p, found left to right,
\* is removed (p is never empty here)
RECURSIVE ReplaceAll(_, _)
ReplaceAll(s, p) ==
    LET i == Find(s, p)
    IN  IF i = 0 THEN s
        ELSE SubSeq(s, 1, i - 1) \o ReplaceAll(SubSeq(s, i + Len(p), Len(s)), p)

\* a variant that removes the first match only
ReplaceFirst(s, p) ==
    LET i == Find(s, p)
    IN  IF i = 0 THEN s
        ELSE SubSeq(s, 1, i - 1) \o SubSeq(s, i + Len(p), Len(s))

\* str::replace as line 220 and line 292 call it
Replace(s, p) == ReplaceAll(s, p)

RECURSIVE Concat(_)
Concat(ss) == IF ss = <<>> THEN <<>> ELSE Head(ss) \o Concat(Tail(ss))

\* itertools::join / [T]::join
RECURSIVE Join(_, _)
Join(ss, sep) ==
    IF ss = <<>> THEN <<>>
    ELSE IF Len(ss) = 1 THEN ss[1]
    ELSE ss[1] \o sep \o Join(Tail(ss), sep)

Reverse(s) == [i \in 1..Len(s) |-> s[Len(s) + 1 - i]]

Range(s) == {s[i] : i \in 1..Len(s)}

SeqsUpTo(S, n) == UNION {[1..k -> S] : k \in 0..n}

Uppers == <<"A", "B", "C", "D", "E", "F", "G", "H", "I", "J", "K", "L", "M", "N", "O", "P", "Q", "R", "S", "T", "U", "V", "W", "X", "Y", "Z">>
Lowers == <<"a", "b", "c", "d", "e", "f", "g", "h", "i", "j", "k", "l", "m", "n", "o", "p", "q", "r", "s", "t", "u", "v", "w", "x", "y", "z">>
Digits == <<"0", "1", "2", "3", "4", "5", "6", "7", "8", "9">>

UpperChars == Range(Uppers)
LowerChars == Range(Lowers)
DigitChars == Range(Digits)

IsUpper(c) == c \in UpperChars
IsLower(c) == c \in LowerChars
IsDigit(c) == c \in DigitChars

ToUpperChar(c) == IF IsLower(c) THEN Uppers[CHOOSE i \in 1..26 : Lowers[i] = c] ELSE c
ToLowerChar(c) == IF IsUpper(c) THEN Lowers[CHOOSE i \in 1..26 : Uppers[i] = c] ELSE c

\* str::to_uppercase, str::to_lowercase
ToUppercase(s) == [i \in 1..Len(s) |-> ToUpperChar(s[i])]
ToLowercase(s) == [i \in 1..Len(s) |-> ToLowerChar(s[i])]

(***************************************************************************)
(* convert_case: `to_case` splits the text into words at the default       *)
(* boundaries (the delimiters `_`, `-`, space, which are consumed; between *)
(* lower|upper, upper|digit, digit|upper, digit|lower, lower|digit; and    *)
(* inside an acronym, upper|upper-lower), drops the empty words, rewrites  *)
(* each word by the pattern of the case and joins them with its delimiter. *)
(***************************************************************************)
IsDelimiter(c) == c \in {"_", "-", " "}

DetectTwo(c, d) ==
    \/ IsLower(c) /\ IsUpper(d)
    \/ IsUpper(c) /\ IsDigit(d)
    \/ IsDigit(c) /\ IsUpper(d)
    \/ IsDigit(c) /\ IsLower(d)
    \/ IsLower(c) /\ IsDigit(d)

DetectThree(c, d, e) == IsUpper(c) /\ IsUpper(d) /\ IsLower(e)

\* "drop": split here and consume the character; "cut": split before it
SplitPoint(s, i) ==
    IF IsDelimiter(s[i]) THEN "drop"
    ELSE IF i > 1 /\ DetectTwo(s[i - 1], s[i]) THEN "cut"
    ELSE IF i > 1 /\ i < Len(s) /\ DetectThree(s[i - 1], s[i], s[i + 1]) THEN "cut"
    ELSE "none"

RECURSIVE SplitFrom(_, _, _, _)
SplitFrom(s, i, word, words) ==
    IF i > Len(s) THEN Append(words, word)
    ELSE LET split == SplitPoint(s, i)
         IN  IF split = "none" THEN SplitFrom(s, i + 1, Append(word, s[i]), words)
             ELSE IF split = "drop" THEN SplitFrom(s, i + 1, <<>>, Append(words, word))
             ELSE SplitFrom(s, i + 1, <<s[i]>>, Append(words, word))

NonEmpty(w) == w # <<>>

Words(s) == SelectSeq(SplitFrom(s, 1, <<>>, <<>>), NonEmpty)

Capital(w) == [i \in 1..Len(w) |-> IF i = 1 THEN ToUpperChar(w[i]) ELSE ToLowerChar(w[i])]

\* to_case(Case::Snake)
ToSnake(s) == LET ws == Words(s) IN Join([i \in 1..Len(ws) |-> ToLowercase(ws[i])], <<"_">>)

\* to_case(Case::Pascal)
ToPascal(s) == LET ws == Words(s) IN Concat([i \in 1..Len(ws) |-> Capital(ws[i])])

(***************************************************************************)
(* parse_file, lines 72-88: the classification of the file name.  A        *)
(* failure is the anyhow error the code bails with: its message and the    *)
(* text the message quotes.                                                *)
(***************************************************************************)
Fail(msg, arg) == [ok |-> FALSE, msg |-> msg, arg |-> arg]

KnownKinds == {<<"h", "a", "l">>, <<"l", "l">>}

\* the kind test of line 86
IsKnownKind(hal_type) == hal_type \in KnownKinds

\* an extension-module test that looks for another suffix
IsExtensionModuleTypo(periph_type) == EndsWith(periph_type, <<"_", "e", "x", "t">>)

\* the extension-module test of line 83
IsExtensionModule(periph_type) == EndsWith(periph_type, <<"_", "e", "x">>)

\* the two tests of lines 83-88 in the opposite order
ClassifyKindFirst(ofname, stver, fname, hal_type, periph_type) ==
    IF ~IsKnownKind(hal_type) THEN Fail("Invalid hal_type", fname)
    ELSE IF IsExtensionModule(periph_type)
    THEN Fail("Skipping extension module, already processed in main module", <<>>)
    ELSE [ok |-> TRUE, ofname |-> ofname, stver |-> stver, fname |-> fname,
          hal_type |-> hal_type, periph_type |-> periph_type]

\* lines 83-88
ClassifyParts(ofname, stver, fname, hal_type, periph_type) ==
    IF IsExtensionModule(periph_type)
    THEN Fail("Skipping extension module, already processed in main module", <<>>)
    ELSE IF ~IsKnownKind(hal_type) THEN Fail("Invalid hal_type", fname)
    ELSE [ok |-> TRUE, ofname |-> ofname, stver |-> stver, fname |-> fname,
          hal_type |-> hal_type, periph_type |-> periph_type]

\* lines 72-75
StripExtension(name) ==
    IF StripSuffix(name, <<".", "c">>).some THEN StripSuffix(name, <<".", "c">>)
    ELSE StripSuffix(name, <<".", "h">>)

\* lines 72-88
ClassifyFileName(name) ==
    LET ext == StripExtension(name)
    IN  IF ~ext.some THEN Fail("Wrong extension", <<>>)
        ELSE LET ofname == ext.val
                 first == SplitOnce(ofname, <<"_">>)
             IN  IF ~first.some THEN Fail("Invalid file name", ofname)
                 ELSE LET stver == first.val[1]
                          fname == first.val[2]
                          second == SplitOnce(fname, <<"_">>)
                      IN  IF ~second.some THEN Fail("Invalid file name", fname)
                          ELSE ClassifyParts(ofname, stver, fname,
                                             second.val[1], second.val[2])

FileTokens == {<<"s", "t", "m", "3", "2", "_">>, <<"h", "a", "l", "_">>, <<"l", "l", "_">>, <<"u", "a", "r", "t">>, <<"_", "e", "x">>, <<".", "c">>, <<".", "h">>}

FileNames == {Concat(ts) : ts \in SeqsUpTo(FileTokens, MaxFileTokens)}

Idle == <<>>

InitClassify ==
    /\ inp \in FileNames
    /\ out = Idle
    /\ pc = "input"
    /\ files = <<>> /\ idx = 0 /\ log = <<>> /\ outdir = {} /\ exitCode = -1

Classify ==
    /\ pc = "input"
    /\ out' = ClassifyFileName(inp)
    /\ pc' = "done"
    /\ UNCHANGED <<files, idx, log, outdir, exitCode, inp>>

NextClassify == Classify

SpecClassify == InitClassify /\ [][NextClassify]_vars

(***************************************************************************)
(* C1.  The documented error kind of a classification failure, and the     *)
(* shape of a file name read off its characters: the extension, then the   *)
(* positions of the underscores of what is left.                           *)
(***************************************************************************)
ErrorKind(r) ==
    IF r.msg = "Wrong extension" THEN "BadExtension"
    ELSE IF r.msg = "Invalid file name" THEN "MalformedName"
    ELSE IF r.msg = "Skipping extension module, already processed in main module"
    THEN "ExtensionModule"
    ELSE IF r.msg = "Invalid hal_type" THEN "UnknownKind"
    ELSE "Generic"

HasSourceExtension(f) ==
    Len(f) >= 2 /\ f[Len(f) - 1] = "." /\ f[Len(f)] \in {"c", "h"}

Stem(f) == SubSeq(f, 1, Len(f) - 2)

Underscores(s) == {i \in 1..Len(s) : s[i] = "_"}

FirstUnderscore(s) == Min(Underscores(s))

SecondUnderscore(s) == Min(Underscores(s) \ {FirstUnderscore(s)})

VersionOf(f) == SubSeq(Stem(f), 1, FirstUnderscore(Stem(f)) - 1)

KindOf(f) == SubSeq(Stem(f), FirstUnderscore(Stem(f)) + 1, SecondUnderscore(Stem(f)) - 1)

PeripheralOf(f) == SubSeq(Stem(f), SecondUnderscore(Stem(f)) + 1, Len(Stem(f)))

EndsInEx(p) == Len(p) >= 3 /\ SubSeq(p, Len(p) - 2, Len(p)) = <<"_", "e", "x">>

ExpectedClass(f) ==
    IF ~HasSourceExtension(f) THEN "BadExtension"
    ELSE IF Cardinality(Underscores(Stem(f))) < 2 THEN "MalformedName"
    ELSE IF EndsInEx(PeripheralOf(f)) THEN "ExtensionModule"
    ELSE IF KindOf(f) \notin {<<"h", "a", "l">>, <<"l", "l">>} THEN "UnknownKind"
    ELSE "Ok"

\* C1: a file name <v>_<kind>_<periph>.c|.h with kind hal or ll and a peripheral
\* not ending in _ex classifies to exactly (v, kind, periph); every other name
\* fails with the documented kind: BadExtension, MalformedName, ExtensionModule
\* (tested before the kind) or UnknownKind, never anything else.
C1_Classification ==
    pc = "done" =>
        IF ExpectedClass(inp) = "Ok"
        THEN /\ out.ok
             /\ out.stver = VersionOf(inp)
             /\ out.hal_type = KindOf(inp)
             /\ out.periph_type = PeripheralOf(inp)
        ELSE /\ ~out.ok
             /\ ErrorKind(out) = ExpectedClass(inp)

\* an `ll` header is classified
C1_Witness ==
    /\ pc = "done"
    /\ inp = <<"s", "t", "m", "3", "2", "_", "l", "l", "_", "u", "a", "r", "t", ".", "h">>
    /\ out.ok /\ out.stver = <<"s", "t", "m", "3", "2">> /\ out.hal_type = <<"l", "l">> /\ out.periph_type = <<"u", "a", "r", "t">>

(***************************************************************************)
(* The method name of a function, as handle_functions (lines 218-223) and  *)
(* static_functions (lines 291-295) derive it.  None is the `?` of         *)
(* split_once leaving the try block.                                       *)
(***************************************************************************)
\* lines 219-223
HandleMethodName(oname, periph) ==
    LET periph_up == ToUppercase(periph)
        split == SplitOnce(oname, <<"_">>)
    IN  IF ~split.some THEN None
        ELSE LET name1 == split.val[2]
                 name2 == Replace(name1, periph_up \o <<"_">>)
                 name3 == ToSnake(name2)
                 name4 == UnwrapOr(StripPrefix(name3, periph), name3)
                 name5 == UnwrapOr(StripPrefix(name4, <<"_">>), name4)
             IN  Some(name5)

\* lines 291-295
StaticMethodName(oname, periph) ==
    LET periph_up == ToUppercase(periph)
        split == SplitOnce(oname, <<"_">>)
    IN  IF ~split.some THEN None
        ELSE LET name1 == split.val[2]
                 name2 == Replace(name1, periph_up \o <<"_">>)
                 name3 == ToSnake(name2)
                 name4 == UnwrapOr(StripPrefix(name3, periph), name3)
                 name5 == UnwrapOr(StripPrefix(name4, <<"_">>), name4)
             IN  Some(name5)

NameTokens ==
    {<<"H", "A", "L", "_">>, <<"L", "L", "_">>, <<"U", "A", "R", "T", "_">>, <<"U", "S", "A", "R", "T", "_">>, <<"T", "r", "a", "n", "s", "m", "i", "t">>, <<"E", "n", "a", "b", "l", "e", "I", "T", "_">>, <<"R", "X", "N", "E">>, <<"U", "A", "R", "T", "E", "x">>}

FunctionNames == {Concat(ts) : ts \in SeqsUpTo(NameTokens, MaxNameTokens)}

Peripherals == {<<"u", "a", "r", "t">>, <<"u", "s", "a", "r", "t">>}

InitName ==
    /\ inp \in [oname : FunctionNames, periph : Peripherals]
    /\ out = Idle
    /\ pc = "input"
    /\ files = <<>> /\ idx = 0 /\ log = <<>> /\ outdir = {} /\ exitCode = -1

DeriveName ==
    /\ pc = "input"
    /\ out' = [per_handle |-> HandleMethodName(inp.oname, inp.periph),
               static |-> StaticMethodName(inp.oname, inp.periph)]
    /\ pc' = "done"
    /\ UNCHANGED <<files, idx, log, outdir, exitCode, inp>>

NextName == DeriveName

SpecName == InitName /\ [][NextName]_vars

(***************************************************************************)
(* C9.  The derivation as the claim words it, step by step, on the         *)
(* characters of the name.                                                 *)
(***************************************************************************)
HasUnderscore(s) == Underscores(s) # {}

\* the text after the prefix token and its `_`
AfterPrefixToken(s) == SubSeq(s, FirstUnderscore(s) + 1, Len(s))

MatchesAt(s, t, i) == i + Len(t) - 1 <= Len(s) /\ SubSeq(s, i, i + Len(t) - 1) = t

\* s without the occurrences of t met when reading s from left to right
RECURSIVE WithoutEvery(_, _, _)
WithoutEvery(s, t, i) ==
    IF i > Len(s) THEN <<>>
    ELSE IF MatchesAt(s, t, i) THEN WithoutEvery(s, t, i + Len(t))
    ELSE <<s[i]>> \o WithoutEvery(s, t, i + 1)

\* s without its first occurrence of t
WithoutOne(s, t) ==
    IF \E i \in 1..Len(s) : MatchesAt(s, t, i)
    THEN LET i == Min({j \in 1..Len(s) : MatchesAt(s, t, j)})
         IN  SubSeq(s, 1, i - 1) \o SubSeq(s, i + Len(t), Len(s))
    ELSE s

\* a leading peripheral, and one `_` after it, taken off
WithoutLeadingPeripheral(s, periph) ==
    IF MatchesAt(s, periph, 1)
    THEN LET rest == SubSeq(s, Len(periph) + 1, Len(s))
         IN  IF rest # <<>> /\ rest[1] = "_" THEN Tail(rest) ELSE rest
    ELSE s

NameRemovingOne(oname, periph) ==
    WithoutLeadingPeripheral(
        ToSnake(WithoutOne(AfterPrefixToken(oname), ToUppercase(periph) \o <<"_">>)), periph)

NameRemovingEvery(oname, periph) ==
    WithoutLeadingPeripheral(
        ToSnake(WithoutEvery(AfterPrefixToken(oname), ToUppercase(periph) \o <<"_">>, 1)), periph)

\* C9 as stated: the method name is the name without its prefix token, with ONE
\* occurrence of <PERIPHERAL_UPPER>_ removed, in lower snake case, without a
\* leading peripheral and one `_` after it; the same in both modes.
C9_OneOccurrence ==
    (pc = "done" /\ HasUnderscore(inp.oname)) =>
        /\ out.per_handle = Some(NameRemovingOne(inp.oname, inp.periph))
        /\ out.static = out.per_handle

\* C9 amended: as above, with EVERY occurrence of <PERIPHERAL_UPPER>_ removed;
\* HAL_UART_Transmit gives transmit and LL_USART_EnableIT_RXNE gives enable_it_rxne.
C9_EveryOccurrence ==
    pc = "done" =>
        /\ HasUnderscore(inp.oname) =>
               out.per_handle = Some(NameRemovingEvery(inp.oname, inp.periph))
        /\ ~HasUnderscore(inp.oname) => out.per_handle = None
        /\ out.static = out.per_handle
        /\ (inp.oname = <<"H", "A", "L", "_", "U", "A", "R", "T", "_", "T", "r", "a", "n", "s", "m", "i", "t">> /\ inp.periph = <<"u", "a", "r", "t">>)
               => out.per_handle = Some(<<"t", "r", "a", "n", "s", "m", "i", "t">>)
        /\ (inp.oname = <<"L", "L", "_", "U", "S", "A", "R", "T", "_", "E", "n", "a", "b", "l", "e", "I", "T", "_", "R", "X", "N", "E">> /\ inp.periph = <<"u", "s", "a", "r", "t">>)
               => out.per_handle = Some(<<"e", "n", "a", "b", "l", "e", "_", "i", "t", "_", "r", "x", "n", "e">>)

\* a name with the peripheral token twice after its first word
C9_Witness ==
    /\ pc = "done"
    /\ inp.oname = <<"H", "A", "L", "_", "E", "n", "a", "b", "l", "e", "I", "T", "_", "U", "A", "R", "T", "_", "U", "A", "R", "T", "_">> /\ inp.periph = <<"u", "a", "r", "t">>
    /\ out.per_handle = Some(<<"e", "n", "a", "b", "l", "e", "_", "i", "t">>) /\ out.static = Some(<<"e", "n", "a", "b", "l", "e", "_", "i", "t">>)

(***************************************************************************)
(* The declarations the C front end supplies.  An argument carries its     *)
(* name (get_name, None for an unnamed parameter), the display name of its *)
(* type and its pretty-printed text; a translation unit is the ordered     *)
(* list of its top-level entities.                                         *)
(***************************************************************************)
Arg(type, name) ==
    [name |-> name, type |-> type,
     pretty |-> IF ~name.some THEN type
                ELSE IF EndsWith(type, <<"*">>) THEN type \o name.val
                ELSE type \o <<" ">> \o name.val]

Function(name, ret, args) == [kind |-> "function", name |-> name, ret |-> ret, args |-> args]

Struct(name) == [kind |-> "struct", name |-> name]

\* the first entity of each name among those of one kind, in order
RECURSIVE FirstOfEachName(_, _, _)
FirstOfEachName(entities, kind, seen) ==
    IF entities = <<>> THEN <<>>
    ELSE LET e == Head(entities)
         IN  IF e.kind = kind /\ e.name \notin seen
             THEN <<e>> \o FirstOfEachName(Tail(entities), kind, seen \cup {e.name})
             ELSE FirstOfEachName(Tail(entities), kind, seen)

\* clang::sonar::find_functions (line 92): a function met more than once is
\* reported once
FindFunctions(entities) == FirstOfEachName(entities, "function", {})

\* clang::sonar::find_structs (line 164): a struct met more than once is
\* reported once
FindStructs(entities) == FirstOfEachName(entities, "struct", {})

(***************************************************************************)
(* find_handle_types, lines 157-193.                                       *)
(***************************************************************************)
\* itertools::unique: the first occurrence of each element, in order
RECURSIVE UniqueFrom(_, _)
UniqueFrom(s, seen) ==
    IF s = <<>> THEN <<>>
    ELSE IF Head(s) \in seen THEN UniqueFrom(Tail(s), seen)
    ELSE <<Head(s)>> \o UniqueFrom(Tail(s), seen \cup {Head(s)})

\* a `unique` that lets everything through
UniqueForgotten(s) == s

\* line 187
Unique(s) == UniqueFrom(s, {})

\* lines 164-170
HalHandleTypes(entities, periph_type) ==
    LET names == [i \in 1..Len(FindStructs(entities)) |-> FindStructs(entities)[i].name]
        kept == SelectSeq(names, LAMBDA decl :
                    /\ EndsWith(decl, <<"_", "H", "a", "n", "d", "l", "e", "T", "y", "p", "e", "D", "e", "f">>)
                    /\ Contains(ToLowercase(decl), ToLowercase(periph_type))
                    /\ ~Contains(decl, <<"c", "o", "n", "s", "t">>))
    IN  [i \in 1..Len(kept) |-> kept[i] \o <<" ", "*">>]

\* lines 172-188
LlHandleTypes(functions, periph_type) ==
    LET named == SelectSeq(functions, LAMBDA decl :
                     Contains(decl.name, ToUppercase(periph_type)))
        witharg == SelectSeq(named, LAMBDA decl : decl.args # <<>>)
        types == [i \in 1..Len(witharg) |-> witharg[i].args[1].type]
        kept == SelectSeq(types, LAMBDA name :
                    Contains(name, <<"_", "T", "y", "p", "e", "D", "e", "f">>) /\ ~Contains(name, <<"c", "o", "n", "s", "t">>))
    IN  Unique(kept)

\* lines 163-192; parse_file only calls it with a known kind
FindHandleTypes(hal_type, entities, periph_type, functions) ==
    IF hal_type = <<"h", "a", "l">> THEN HalHandleTypes(entities, periph_type)
    ELSE LlHandleTypes(functions, periph_type)

(***************************************************************************)
(* handle_functions (lines 195-267) and static_functions (lines 269-313).  *)
(* A function yields the empty string, a method, or a panic (an `expect`   *)
(* on a missing piece of the declaration).                                 *)
(***************************************************************************)
Empty == [kind |-> "empty"]

Panic(msg) == [kind |-> "panic", msg |-> msg]

\* the format! of lines 227, 260 and 306
Method(prefix, ret, name, params, oname, call_args) ==
    [kind |-> "method", prefix |-> prefix, ret |-> ret, name |-> name,
     params |-> params, args_text |-> Join(params, <<",", " ">>),
     oname |-> oname, call_args |-> call_args, call_text |-> Join(call_args, <<",", " ">>)]

\* lines 206-209 and 274-277
IsCandidate(decl, hal_type) ==
    LET is_ll == (hal_type = <<"l", "l">>)
    IN  /\ \/ ~is_ll /\ StartsWith(decl.name, <<"H", "A", "L", "_">>)
           \/ is_ll /\ StartsWith(decl.name, <<"L", "L", "_">>)
        /\ ~EndsWith(decl.name, <<"I", "R", "Q", "H", "a", "n", "d", "l", "e", "r">>) /\ ~EndsWith(decl.name, <<"C", "a", "l", "l", "b", "a", "c", "k">>)

\* the selection without the `rev` of line 210
CandidatesInOrder(functions, hal_type) ==
    SelectSeq(functions, LAMBDA decl : IsCandidate(decl, hal_type))

\* lines 204-210 and 272-278
Candidates(functions, hal_type) ==
    Reverse(SelectSeq(functions, LAMBDA decl : IsCandidate(decl, hal_type)))

AllNamed(args) == \A i \in 1..Len(args) : args[i].name.some

ArgNames(args) == [i \in 1..Len(args) |-> args[i].name.val]

ArgTexts(args) == [i \in 1..Len(args) |-> args[i].pretty]

\* line 202
StripHandlePrefix(handle_type) == UnwrapOr(StripPrefix(handle_type, <<"_", "_">>), handle_type)

\* lines 234-238
IsHandleArg(arg, handle_type) == Contains(arg.type, StripHandlePrefix(handle_type))

\* lines 249-262 with the `args.remove(0)` of line 240 left out
InstanceMethodKeepFirst(decl, name) ==
    IF ~AllNamed(decl.args) THEN Panic("args have names")
    ELSE Method(<<>>, decl.ret, name, ArgTexts(decl.args), decl.name,
                <<<<"t", "h", "i", "s", "-", ">", "h", "a", "n", "d", "l", "e">>>> \o ArgNames(decl.args))

\* lines 240-241 and 249-262: the first argument is the handle
InstanceMethod(decl, name) ==
    IF ~AllNamed(Tail(decl.args)) THEN Panic("args have names")
    ELSE Method(<<>>, decl.ret, name, ArgTexts(Tail(decl.args)), decl.name,
                <<<<"t", "h", "i", "s", "-", ">", "h", "a", "n", "d", "l", "e">>>> \o ArgNames(Tail(decl.args)))

\* lines 244 and 249-262, lines 296-308: every argument is forwarded
StaticMethod(decl, name) ==
    IF ~AllNamed(decl.args) THEN Panic("args have names")
    ELSE Method(<<"s", "t", "a", "t", "i", "c", " ">>, decl.ret, name, ArgTexts(decl.args), decl.name,
                ArgNames(decl.args))

\* the closure of lines 211-265
HandleMethod(decl, handle_type, periph) ==
    LET periph_up == ToUppercase(periph)
        name == HandleMethodName(decl.name, periph)
    IN  IF ~name.some THEN Empty
        ELSE IF decl.args = <<>>
        THEN IF Contains(decl.name, periph_up)
             THEN Method(<<"s", "t", "a", "t", "i", "c", " ">>, decl.ret, name.val, <<>>, decl.name, <<>>)
             ELSE Empty
        ELSE IF IsHandleArg(decl.args[1], handle_type) THEN InstanceMethod(decl, name.val)
        ELSE IF Contains(decl.name, periph_up) THEN StaticMethod(decl, name.val)
        ELSE Empty

\* the closure of lines 279-311
StaticOnlyMethod(decl, periph) ==
    LET periph_up == ToUppercase(periph)
        name == StaticMethodName(decl.name, periph)
    IN  IF ~Contains(decl.name, periph_up) THEN Empty
        ELSE IF ~name.some THEN Empty
        ELSE StaticMethod(decl, name.val)

\* a panic inside the map unwinds through collect_vec: no vector is returned
Collected(methods) ==
    IF \E i \in 1..Len(methods) : methods[i].kind = "panic"
    THEN [panic |-> TRUE]
    ELSE [panic |-> FALSE, methods |-> methods]

\* lines 195-267
HandleFunctions(functions, handle_type, hal_type, periph) ==
    LET cands == Candidates(functions, hal_type)
    IN  Collected([i \in 1..Len(cands) |-> HandleMethod(cands[i], handle_type, periph)])

\* lines 269-313
StaticFunctions(functions, hal_type, periph) ==
    LET cands == Candidates(functions, hal_type)
    IN  Collected([i \in 1..Len(cands) |-> StaticOnlyMethod(cands[i], periph)])

(***************************************************************************)
(* generate_code, lines 112-155.  The text is kept as its parts: the       *)
(* include, the outer namespace, and one section per class or namespace    *)
(* with the methods extended into it, in order.                            *)
(***************************************************************************)
\* lines 125-128
NamespaceSection(periph_type, functions, hal_type) ==
    LET res == StaticFunctions(functions, hal_type, periph_type)
    IN  IF res.panic THEN <<Panic("args have names")>>
        ELSE <<[kind |-> "namespace", cname |-> ToPascal(periph_type),
                handle_type |-> None, methods |-> res.methods]>>

\* lines 131-150: a handle type without `_` is reported and skipped
ClassSection(handle_type, periph_type, functions, hal_type) ==
    LET split == RSplitOnce(handle_type, <<"_">>)
        res == HandleFunctions(functions, handle_type, hal_type, periph_type)
    IN  IF ~split.some THEN <<>>
        ELSE IF res.panic THEN <<Panic("args have names")>>
        ELSE <<[kind |-> "class", cname |-> ToPascal(split.val[1]),
                handle_type |-> Some(handle_type), methods |-> res.methods]>>

\* lines 112-155
GenerateCode(handle_types, ofname, periph_type, functions, hal_type) ==
    LET sections ==
            IF handle_types = <<>>
            THEN NamespaceSection(periph_type, functions, hal_type)
            ELSE Concat([i \in 1..Len(handle_types) |->
                            ClassSection(handle_types[i], periph_type, functions, hal_type)])
    IN  IF \E i \in 1..Len(sections) : sections[i].kind = "panic"
        THEN [panic |-> TRUE]
        ELSE [panic |-> FALSE, include |-> ofname \o <<".", "h">>, namespace |-> hal_type,
              sections |-> sections]

(***************************************************************************)
(* The resolver on its own: the declarations of a translation unit, drawn  *)
(* from a catalogue of structs and functions (an entity may repeat: a      *)
(* forward declaration, a prototype given twice).                          *)
(***************************************************************************)
Named(n) == Some(n)

ResolveEntities ==
    {Struct(<<"U", "A", "R", "T", "_", "H", "a", "n", "d", "l", "e", "T", "y", "p", "e", "D", "e", "f">>),
     Struct(<<"L", "P", "U", "A", "R", "T", "_", "H", "a", "n", "d", "l", "e", "T", "y", "p", "e", "D", "e", "f">>),
     Struct(<<"U", "A", "R", "T", "c", "o", "n", "s", "t", "_", "H", "a", "n", "d", "l", "e", "T", "y", "p", "e", "D", "e", "f">>),
     Struct(<<"U", "A", "R", "T", "_", "I", "n", "i", "t", "T", "y", "p", "e", "D", "e", "f">>),
     Function(<<"L", "L", "_", "U", "S", "A", "R", "T", "_", "E", "n", "a", "b", "l", "e">>, <<"v", "o", "i", "d">>, <<Arg(<<"U", "S", "A", "R", "T", "_", "T", "y", "p", "e", "D", "e", "f", " ", "*">>, Named(<<"U", "S", "A", "R", "T", "x">>))>>),
     Function(<<"L", "L", "_", "U", "S", "A", "R", "T", "_", "D", "i", "s", "a", "b", "l", "e">>, <<"v", "o", "i", "d">>, <<Arg(<<"U", "S", "A", "R", "T", "_", "T", "y", "p", "e", "D", "e", "f", " ", "*">>, Named(<<"U", "S", "A", "R", "T", "x">>))>>),
     Function(<<"L", "L", "_", "U", "S", "A", "R", "T", "_", "I", "s", "E", "n", "a", "b", "l", "e", "d">>, <<"u", "i", "n", "t", "3", "2", "_", "t">>,
              <<Arg(<<"c", "o", "n", "s", "t", " ", "U", "S", "A", "R", "T", "_", "T", "y", "p", "e", "D", "e", "f", " ", "*">>, Named(<<"U", "S", "A", "R", "T", "x">>))>>),
     Function(<<"L", "L", "_", "U", "S", "A", "R", "T", "_", "S", "e", "t", "P", "i", "n">>, <<"v", "o", "i", "d">>, <<Arg(<<"G", "P", "I", "O", "_", "T", "y", "p", "e", "D", "e", "f", " ", "*">>, Named(<<"G", "P", "I", "O", "x">>))>>),
     Function(<<"L", "L", "_", "U", "S", "A", "R", "T", "_", "G", "e", "t", "V", "e", "r", "s", "i", "o", "n">>, <<"u", "i", "n", "t", "3", "2", "_", "t">>, <<>>),
     Function(<<"L", "L", "_", "G", "P", "I", "O", "_", "T", "o", "g", "g", "l", "e">>, <<"v", "o", "i", "d">>, <<Arg(<<"G", "P", "I", "O", "_", "T", "y", "p", "e", "D", "e", "f", " ", "*">>, Named(<<"G", "P", "I", "O", "x">>))>>),
     Function(<<"L", "L", "_", "U", "S", "A", "R", "T", "_", "S", "e", "t", "B", "a", "u", "d">>, <<"v", "o", "i", "d">>, <<Arg(<<"u", "i", "n", "t", "3", "2", "_", "t">>, Named(<<"B", "a", "u", "d">>))>>)}

\* the classifications a file of the catalogue's families gets
Worlds ==
    {[hal_type |-> <<"h", "a", "l">>, periph_type |-> <<"u", "a", "r", "t">>, ofname |-> <<"s", "t", "m", "3", "2", "f", "4", "x", "x", "_", "h", "a", "l", "_", "u", "a", "r", "t">>],
     [hal_type |-> <<"l", "l">>, periph_type |-> <<"u", "s", "a", "r", "t">>, ofname |-> <<"s", "t", "m", "3", "2", "f", "4", "x", "x", "_", "l", "l", "_", "u", "s", "a", "r", "t">>]}

InitResolve ==
    /\ inp \in [world : Worlds, entities : SeqsUpTo(ResolveEntities, MaxDecls)]
    /\ out = Idle
    /\ pc = "input"
    /\ files = <<>> /\ idx = 0 /\ log = <<>> /\ outdir = {} /\ exitCode = -1

\* lines 92-94 of parse_file
Resolve ==
    /\ pc = "input"
    /\ \E functions \in {FindFunctions(inp.entities)} :
         out' = [functions |-> functions,
                 handle_types |-> FindHandleTypes(inp.world.hal_type, inp.entities,
                                                  inp.world.periph_type, functions)]
    /\ pc' = "done"
    /\ UNCHANGED <<files, idx, log, outdir, exitCode, inp>>

NextResolve == Resolve

SpecResolve == InitResolve /\ [][NextResolve]_vars

(***************************************************************************)
(* The synthesis on its own: lines 92-96 of parse_file on a translation    *)
(* unit drawn from a catalogue that has, for both kinds, a function of     *)
(* every row of the decision table, the two hooks, and unnamed parameters. *)
(***************************************************************************)
huart == Arg(<<"U", "A", "R", "T", "_", "H", "a", "n", "d", "l", "e", "T", "y", "p", "e", "D", "e", "f", " ", "*">>, Named(<<"h", "u", "a", "r", "t">>))
Size == Arg(<<"u", "i", "n", "t", "1", "6", "_", "t">>, Named(<<"S", "i", "z", "e">>))
Unnamed16 == Arg(<<"u", "i", "n", "t", "1", "6", "_", "t">>, None)

SynthEntities ==
    {Struct(<<"_", "_", "U", "A", "R", "T", "_", "H", "a", "n", "d", "l", "e", "T", "y", "p", "e", "D", "e", "f">>),
     Function(<<"H", "A", "L", "_", "U", "A", "R", "T", "_", "T", "r", "a", "n", "s", "m", "i", "t">>, <<"H", "A", "L", "_", "S", "t", "a", "t", "u", "s", "T", "y", "p", "e", "D", "e", "f">>, <<huart, Size>>),
     Function(<<"H", "A", "L", "_", "U", "A", "R", "T", "_", "I", "R", "Q", "H", "a", "n", "d", "l", "e", "r">>, <<"v", "o", "i", "d">>, <<huart>>),
     Function(<<"H", "A", "L", "_", "U", "A", "R", "T", "_", "T", "x", "C", "p", "l", "t", "C", "a", "l", "l", "b", "a", "c", "k">>, <<"v", "o", "i", "d">>, <<huart>>),
     Function(<<"H", "A", "L", "_", "G", "e", "t", "T", "i", "c", "k">>, <<"u", "i", "n", "t", "3", "2", "_", "t">>, <<>>),
     Function(<<"H", "A", "L", "_", "U", "A", "R", "T", "_", "D", "e", "I", "n", "i", "t", "A", "l", "l">>, <<"v", "o", "i", "d">>, <<>>),
     Function(<<"H", "A", "L", "_", "U", "A", "R", "T", "_", "S", "e", "t", "F", "l", "a", "g">>, <<"v", "o", "i", "d">>, <<Size>>),
     Function(<<"H", "A", "L", "_", "D", "e", "l", "a", "y">>, <<"v", "o", "i", "d">>, <<Size>>),
     Function(<<"H", "A", "L", "_", "U", "A", "R", "T", "_", "A", "b", "o", "r", "t">>, <<"H", "A", "L", "_", "S", "t", "a", "t", "u", "s", "T", "y", "p", "e", "D", "e", "f">>, <<huart, Unnamed16>>),
     Function(<<"H", "A", "L", "_", "H", "a", "l", "f", "D", "u", "p", "l", "e", "x", "_", "I", "n", "i", "t">>, <<"H", "A", "L", "_", "S", "t", "a", "t", "u", "s", "T", "y", "p", "e", "D", "e", "f">>,
              <<Arg(<<"U", "A", "R", "T", "_", "H", "a", "n", "d", "l", "e", "T", "y", "p", "e", "D", "e", "f", " ", "*">>, None), Size>>),
     Function(<<"L", "L", "_", "U", "S", "A", "R", "T", "_", "E", "n", "a", "b", "l", "e">>, <<"v", "o", "i", "d">>, <<Arg(<<"U", "S", "A", "R", "T", "_", "T", "y", "p", "e", "D", "e", "f", " ", "*">>, Named(<<"U", "S", "A", "R", "T", "x">>))>>),
     Function(<<"L", "L", "_", "U", "S", "A", "R", "T", "_", "S", "e", "t", "B", "a", "u", "d">>, <<"v", "o", "i", "d">>, <<Size, Arg(<<"u", "i", "n", "t", "3", "2", "_", "t">>, Named(<<"B", "a", "u", "d">>))>>),
     Function(<<"L", "L", "_", "m", "D", "e", "l", "a", "y">>, <<"v", "o", "i", "d">>, <<Arg(<<"u", "i", "n", "t", "3", "2", "_", "t">>, Named(<<"D", "e", "l", "a", "y">>))>>)}

InitSynth ==
    /\ inp \in [world : Worlds, entities : SeqsUpTo(SynthEntities, MaxDecls)]
    /\ out = Idle
    /\ pc = "input"
    /\ files = <<>> /\ idx = 0 /\ log = <<>> /\ outdir = {} /\ exitCode = -1

\* lines 92-96 of parse_file
Synthesize ==
    /\ pc = "input"
    /\ \E functions \in {FindFunctions(inp.entities)} :
       \E handle_types \in {FindHandleTypes(inp.world.hal_type, inp.entities,
                                            inp.world.periph_type, functions)} :
         out' = [functions |-> functions,
                 handle_types |-> handle_types,
                 gen |-> GenerateCode(handle_types, inp.world.ofname,
                                      inp.world.periph_type, functions,
                                      inp.world.hal_type)]
    /\ pc' = "done"
    /\ UNCHANGED <<files, idx, log, outdir, exitCode, inp>>

NextSynth == Synthesize

SpecSynth == InitSynth /\ [][NextSynth]_vars

(***************************************************************************)
(* main (lines 30-56) and parse_file (lines 58-110).  A glob entry is a    *)
(* path (its file name is what parse_file reads of it) or a GlobError;     *)
(* the entries of the first pattern come before those of the second.  The  *)
(* front end's answer for a file is outside the program: a parse error or  *)
(* a translation unit.  So are the file system's answers to File::create   *)
(* and to the write.                                                       *)
(***************************************************************************)
GlobError == [ok |-> FALSE]

Path(name) == [ok |-> TRUE, name |-> name]

\* matches of <input>/*/*hal*.c (line 36)
HalMatches ==
    {Path(<<"s", "t", "m", "3", "2", "f", "4", "x", "x", "_", "h", "a", "l", "_", "u", "a", "r", "t", ".", "c">>), Path(<<"s", "t", "m", "3", "2", "f", "4", "x", "x", "_", "h", "a", "l", "_", "u", "a", "r", "t", "_", "e", "x", ".", "c">>),
     Path(<<"s", "t", "m", "3", "2", "f", "4", "x", "x", "_", "h", "a", "l", ".", "c">>), Path(<<"s", "t", "m", "3", "2", "_", "d", "e", "f", "_", "h", "a", "l", ".", "c">>), GlobError}

\* matches of <input>/*/*ll*.h (line 37)
LlMatches ==
    {Path(<<"s", "t", "m", "3", "2", "f", "4", "x", "x", "_", "l", "l", "_", "u", "s", "a", "r", "t", ".", "h">>), Path(<<"s", "t", "m", "3", "2", "f", "4", "x", "x", "_", "l", "l", "_", "u", "s", "a", "r", "t", ".", "v", "2", ".", "h">>), GlobError}

\* what parse_header (lines 315-339) can return for a file
TranslationUnits ==
    {<<Struct(<<"_", "_", "U", "A", "R", "T", "_", "H", "a", "n", "d", "l", "e", "T", "y", "p", "e", "D", "e", "f">>),
       Function(<<"H", "A", "L", "_", "U", "A", "R", "T", "_", "T", "r", "a", "n", "s", "m", "i", "t">>, <<"H", "A", "L", "_", "S", "t", "a", "t", "u", "s", "T", "y", "p", "e", "D", "e", "f">>, <<huart, Size>>),
       Function(<<"H", "A", "L", "_", "U", "A", "R", "T", "_", "I", "R", "Q", "H", "a", "n", "d", "l", "e", "r">>, <<"v", "o", "i", "d">>, <<huart>>)>>,
     <<Struct(<<"_", "_", "U", "A", "R", "T", "_", "H", "a", "n", "d", "l", "e", "T", "y", "p", "e", "D", "e", "f">>),
       Function(<<"H", "A", "L", "_", "U", "A", "R", "T", "_", "A", "b", "o", "r", "t">>, <<"H", "A", "L", "_", "S", "t", "a", "t", "u", "s", "T", "y", "p", "e", "D", "e", "f">>, <<huart, Unnamed16>>)>>,
     <<Function(<<"L", "L", "_", "U", "S", "A", "R", "T", "_", "E", "n", "a", "b", "l", "e">>, <<"v", "o", "i", "d">>, <<Arg(<<"U", "S", "A", "R", "T", "_", "T", "y", "p", "e", "D", "e", "f", " ", "*">>, Named(<<"U", "S", "A", "R", "T", "x">>))>>),
       Function(<<"L", "L", "_", "m", "D", "e", "l", "a", "y">>, <<"v", "o", "i", "d">>, <<Arg(<<"u", "i", "n", "t", "3", "2", "_", "t">>, Named(<<"D", "e", "l", "a", "y">>))>>)>>}

\* Path::with_extension("hpp") on a file name that does not begin with `.`
WithExtensionHpp(fname) ==
    LET dot == RFind(fname, <<".">>)
    IN  IF dot > 1 THEN SubSeq(fname, 1, dot - 1) \o <<".", "h", "p", "p">> ELSE fname \o <<".", "h", "p", "p">>

\* the output path with the whole stripped input name, version included
NewFileKeepVersion(ofname, fname) == WithExtensionHpp(ofname)

\* line 98: outdir.join(fname).with_extension("hpp"), relative to outdir
NewFile(ofname, fname) == WithExtensionHpp(fname)

\* File::create truncates or creates; content is what reaches the file
Store(dir, name, content) ==
    {f \in dir : f.name # name} \cup {[name |-> name, content |-> content]}

\* what is on disk when the write did not go through
Partial == [panic |-> FALSE, partial |-> TRUE]

Entry(entry, result, msg, parsed, created) ==
    [entry |-> entry, result |-> result, msg |-> msg, parsed |-> parsed,
     created |-> created]

InitBatch ==
    /\ files \in {c \o h : c \in SeqsUpTo(HalMatches, MaxFiles),
                           h \in SeqsUpTo(LlMatches, MaxFiles)}
    /\ Len(files) <= MaxFiles
    /\ idx = 0
    /\ log = <<>>
    /\ outdir = {}
    /\ exitCode = -1
    /\ pc = "setup"
    /\ inp = Idle /\ out = Idle

\* lines 35-43 succeed
Setup ==
    /\ pc = "setup"
    /\ pc' = "loop"
    /\ UNCHANGED <<files, idx, log, outdir, exitCode, inp, out>>

\* lines 36-37 or 41-43 return an error through `?`
SetupError ==
    /\ pc = "setup"
    /\ pc' = "failed" /\ exitCode' = 1
    /\ UNCHANGED <<files, idx, log, outdir, inp, out>>

\* line 39: Clang::new().expect(..) panics
SetupPanic ==
    /\ pc = "setup"
    /\ pc' = "failed" /\ exitCode' = 101
    /\ UNCHANGED <<files, idx, log, outdir, inp, out>>

\* parse_file returns an error (line 64, or lines 67-88) before it reads the file
Rejected(entry) ==
    IF ~entry.ok THEN Entry(entry, "err", "glob error", FALSE, {})
    ELSE Entry(entry, "err", ClassifyFileName(entry.name).msg, FALSE, {})

IsRejected(entry) == IF entry.ok THEN ~ClassifyFileName(entry.name).ok ELSE TRUE

\* one iteration of the loop of lines 44-53, for an entry parse_file rejects
SkipFile ==
    /\ pc = "loop" /\ idx < Len(files)
    /\ IsRejected(files[idx + 1])
    /\ log' = Append(log, Rejected(files[idx + 1]))
    /\ idx' = idx + 1
    /\ UNCHANGED <<files, outdir, exitCode, pc, inp, out>>

\* one iteration, parse_header fails (line 90)
ParseFailure ==
    /\ pc = "loop" /\ idx < Len(files)
    /\ ~IsRejected(files[idx + 1])
    /\ log' = Append(log, Entry(files[idx + 1], "err", "Could not parse the file", FALSE, {}))
    /\ idx' = idx + 1
    /\ UNCHANGED <<files, outdir, exitCode, pc, inp, out>>

IoOutcomes == {"create fails", "write fails", "flush fails", "written"}

\* one iteration, the header parses: lines 90-109, and the panic of an `expect`
\* in lines 195-313, which ends the process
ConvertFile ==
    /\ pc = "loop" /\ idx < Len(files)
    /\ ~IsRejected(files[idx + 1])
    /\ \E tu \in TranslationUnits, io \in IoOutcomes :
       \E entry \in {files[idx + 1]} :
       \E cls \in {ClassifyFileName(entry.name)} :
       \E functions \in {FindFunctions(tu)} :
       \E handle_types \in {FindHandleTypes(cls.hal_type, tu, cls.periph_type, functions)} :
       \E gen_code \in {GenerateCode(handle_types, cls.ofname, cls.periph_type,
                                     functions, cls.hal_type)} :
       \E new_file \in {NewFile(cls.ofname, cls.fname)} :
         IF gen_code.panic
         THEN /\ log' = Append(log, Entry(entry, "panic", "args have names", TRUE, {}))
              /\ pc' = "panicked" /\ exitCode' = 101
              /\ UNCHANGED outdir
         ELSE /\ pc' = pc /\ exitCode' = exitCode
              /\ CASE io = "create fails" ->
                        /\ log' = Append(log, Entry(entry, "err", "Could not create new file",
                                                    TRUE, {}))
                        /\ UNCHANGED outdir
                   [] io = "write fails" ->
                        /\ log' = Append(log, Entry(entry, "err", "write error", TRUE,
                                                    {new_file}))
                        /\ outdir' = Store(outdir, new_file, Partial)
                   [] io = "flush fails" ->
                        /\ log' = Append(log, Entry(entry, "ok", "converted", TRUE,
                                                    {new_file}))
                        /\ outdir' = Store(outdir, new_file, Partial)
                   [] io = "written" ->
                        /\ log' = Append(log, Entry(entry, "ok", "converted", TRUE,
                                                    {new_file}))
                        /\ outdir' = Store(outdir, new_file, gen_code)
    /\ idx' = idx + 1
    /\ UNCHANGED <<files, inp, out>>

\* line 55: the loop is over, main returns Ok(())
Finish ==
    /\ pc = "loop" /\ idx = Len(files)
    /\ pc' = "exit" /\ exitCode' = 0
    /\ UNCHANGED <<files, idx, log, outdir, inp, out>>

Next == Setup \/ SetupError \/ SetupPanic \/ SkipFile \/ ParseFailure \/ ConvertFile \/ Finish

Spec == InitBatch /\ [][Next]_vars

(***************************************************************************)
(* C7.  What the resolver should keep, read off the entities of the        *)
(* translation unit in order.                                              *)
(***************************************************************************)
Mentions(s, t) == \E i \in 1..Len(s) : MatchesAt(s, t, i)

HasSuffix(s, t) == Len(t) <= Len(s) /\ MatchesAt(s, t, Len(s) - Len(t) + 1)

\* the entity contributes a handle type
Qualifies(e, world) ==
    IF world.hal_type = <<"h", "a", "l">>
    THEN /\ e.kind = "struct"
         /\ HasSuffix(e.name, <<"_", "H", "a", "n", "d", "l", "e", "T", "y", "p", "e", "D", "e", "f">>)
         /\ Mentions(ToLowercase(e.name), ToLowercase(world.periph_type))
         /\ ~Mentions(e.name, <<"c", "o", "n", "s", "t">>)
    ELSE /\ e.kind = "function"
         /\ Mentions(e.name, ToUppercase(world.periph_type))
         /\ e.args # <<>>
         /\ Mentions(e.args[1].type, <<"_", "T", "y", "p", "e", "D", "e", "f">>)
         /\ ~Mentions(e.args[1].type, <<"c", "o", "n", "s", "t">>)

\* the handle type it contributes
Contribution(e, world) ==
    IF world.hal_type = <<"h", "a", "l">> THEN e.name \o <<" ", "*">> ELSE e.args[1].type

\* where a handle type is first seen
FirstSeen(t, entities, world) ==
    Min({k \in 1..Len(entities) :
            Qualifies(entities[k], world) /\ Contribution(entities[k], world) = t})

KindPrefix(hal_type) == IF hal_type = <<"h", "a", "l">> THEN <<"H", "A", "L", "_">> ELSE <<"L", "L", "_">>

IsHook(name) == HasSuffix(name, <<"I", "R", "Q", "H", "a", "n", "d", "l", "e", "r">>) \/ HasSuffix(name, <<"C", "a", "l", "l", "b", "a", "c", "k">>)

\* the indices of the functions that are candidates
Selected(fs, hal_type) ==
    {i \in 1..Len(fs) : MatchesAt(fs[i].name, KindPrefix(hal_type), 1) /\ ~IsHook(fs[i].name)}

\* the k-th candidate counted from the last declared
Candidate(fs, hal_type, k) ==
    fs[CHOOSE i \in Selected(fs, hal_type) :
           Cardinality({j \in Selected(fs, hal_type) : j > i}) = k - 1]

\* the handle type of a class; a namespace has none
HandleOf(section) == IF section.handle_type.some THEN section.handle_type.val ELSE <<>>

\* the type text of the first argument contains the handle type (less a leading `__`)
FirstIsHandle(f, section) ==
    /\ section.kind = "class"
    /\ f.args # <<>>
    /\ LET h == HandleOf(section)
       IN  Mentions(f.args[1].type,
                    IF MatchesAt(h, <<"_", "_">>, 1) THEN SubSeq(h, 3, Len(h)) ELSE h)

\* the arguments a method forwards by name
Forwarded(f, section) == IF FirstIsHandle(f, section) THEN Tail(f.args) ELSE f.args

NamesOf(args) == [i \in 1..Len(args) |-> IF args[i].name.some THEN args[i].name.val ELSE <<>>]

TextsOf(args) == [i \in 1..Len(args) |-> args[i].pretty]

FunctionNamed(fs, name) == fs[CHOOSE i \in 1..Len(fs) : fs[i].name = name]

Sections == IF out.gen.panic THEN {} ELSE Range(out.gen.sections)

Emitted(section) == {m \in Range(section.methods) : m.kind = "method"}

\* C4: in every emitted method the first argument is left out of the parameter
\* list, and `this->handle` passed in its place, if and only if its type is the
\* handle type of the class; otherwise every argument is in the parameter list
\* and in the call unchanged, in order.
C4_HandleArgument ==
    pc = "done" =>
        \A s \in Sections : \A m \in Emitted(s) :
            LET f == FunctionNamed(out.functions, m.oname)
            IN  IF FirstIsHandle(f, s)
                THEN /\ m.params = TextsOf(Tail(f.args))
                     /\ m.call_args = <<<<"t", "h", "i", "s", "-", ">", "h", "a", "n", "d", "l", "e">>>> \o NamesOf(Tail(f.args))
                     /\ m.prefix = <<>>
                ELSE /\ m.params = TextsOf(f.args)
                     /\ m.call_args = NamesOf(f.args)
                     /\ m.prefix = <<"s", "t", "a", "t", "i", "c", " ">>

\* a class with an instance method whose handle argument is dropped
C4_Witness ==
    /\ pc = "done"
    /\ ~out.gen.panic
    /\ \E s \in Sections : \E m \in Emitted(s) :
           /\ s.kind = "class"
           /\ m.oname = <<"H", "A", "L", "_", "U", "A", "R", "T", "_", "T", "r", "a", "n", "s", "m", "i", "t">>
           /\ m.params = <<<<"u", "i", "n", "t", "1", "6", "_", "t", " ", "S", "i", "z", "e">>>>
           /\ m.call_args = <<<<"t", "h", "i", "s", "-", ">", "h", "a", "n", "d", "l", "e">>, <<"S", "i", "z", "e">>>>

\* the function has an argument it must forward by name and that has no name
MissesName(f, section) ==
    \E i \in 1..Len(Forwarded(f, section)) : ~Forwarded(f, section)[i].name.some

\* C5: a candidate function with a missing piece of information (an argument
\* name) yields the empty output, the others are still synthesized, and the
\* run is not aborted.
C5_FailurePolicy ==
    pc = "done" =>
        /\ ~out.gen.panic
        /\ \A s \in Sections :
               /\ Len(s.methods) = Cardinality(Selected(out.functions, inp.world.hal_type))
               /\ \A k \in 1..Len(s.methods) :
                      MissesName(Candidate(out.functions, inp.world.hal_type, k), s)
                          => s.methods[k].kind = "empty"

\* the row of the decision table a function falls in
TableRow(f, section, periph) ==
    IF f.args = <<>>
    THEN IF Mentions(f.name, ToUppercase(periph)) THEN "static" ELSE "discarded"
    ELSE IF FirstIsHandle(f, section) THEN "instance"
    ELSE IF Mentions(f.name, ToUppercase(periph)) THEN "static"
    ELSE "discarded"

\* the method m is what the row of f says
FollowsTable(m, f, section, periph) ==
    LET row == TableRow(f, section, periph)
    IN  IF row = "discarded" THEN m.kind = "empty"
        ELSE /\ m.kind = "method"
             /\ m.oname = f.name
             /\ Len(m.call_args) = Len(f.args)
             /\ IF row = "instance"
                THEN /\ m.prefix = <<>>
                     /\ m.call_args = <<<<"t", "h", "i", "s", "-", ">", "h", "a", "n", "d", "l", "e">>>> \o NamesOf(Tail(f.args))
                ELSE /\ m.prefix = <<"s", "t", "a", "t", "i", "c", " ">>
                     /\ m.call_args = NamesOf(f.args)

\* every candidate of every class has the outcome of its row
TableHolds ==
    \A s \in {c \in Sections : c.kind = "class"} :
        /\ Len(s.methods) = Cardinality(Selected(out.functions, inp.world.hal_type))
        /\ \A k \in 1..Len(s.methods) :
               FollowsTable(s.methods[k], Candidate(out.functions, inp.world.hal_type, k),
                            s, inp.world.periph_type)

\* C8: per handle type, every candidate function gets the outcome of its row of
\* the decision table (no arguments / first argument is the handle / name has
\* the peripheral), and an emitted call passes as many arguments as declared.
C8_DecisionTable ==
    (pc = "done" /\ out.handle_types # <<>>) => (~out.gen.panic /\ TableHolds)

\* the decision table on the runs that end without a panic
TableUnlessPanic ==
    (pc = "done" /\ out.handle_types # <<>> /\ ~out.gen.panic) => TableHolds

\* C10: in every class and in the static namespace the methods stand in the
\* order of the candidates -- the functions named HAL_ (kind hal) or LL_ (kind
\* ll) that are no IRQHandler and no Callback, last declared first -- and no
\* method forwards to a hook.
C10_SelectionOrder ==
    pc = "done" =>
        \A s \in Sections :
            /\ Len(s.methods) = Cardinality(Selected(out.functions, inp.world.hal_type))
            /\ \A k \in 1..Len(s.methods) :
                   s.methods[k].kind = "method" =>
                       /\ s.methods[k].oname
                              = Candidate(out.functions, inp.world.hal_type, k).name
                       /\ ~IsHook(s.methods[k].oname)

\* two methods in a class, the later declared first, with a hook declared too
C10_Witness ==
    /\ pc = "done"
    /\ ~out.gen.panic
    /\ Len(out.functions) = 3
    /\ out.functions[1].name = <<"H", "A", "L", "_", "U", "A", "R", "T", "_", "T", "r", "a", "n", "s", "m", "i", "t">>
    /\ out.functions[2].name = <<"H", "A", "L", "_", "U", "A", "R", "T", "_", "I", "R", "Q", "H", "a", "n", "d", "l", "e", "r">>
    /\ out.functions[3].name = <<"H", "A", "L", "_", "U", "A", "R", "T", "_", "S", "e", "t", "F", "l", "a", "g">>
    /\ \E s \in Sections :
           /\ Len(s.methods) = 2
           /\ s.methods[1].kind = "method" /\ s.methods[1].oname = <<"H", "A", "L", "_", "U", "A", "R", "T", "_", "S", "e", "t", "F", "l", "a", "g">>
           /\ s.methods[2].kind = "method" /\ s.methods[2].oname = <<"H", "A", "L", "_", "U", "A", "R", "T", "_", "T", "r", "a", "n", "s", "m", "i", "t">>

(***************************************************************************)
(* C2, C3, C6.  The batch, read off the log of the loop and the output     *)
(* directory.                                                              *)
(***************************************************************************)
\* the names in the output directory are those the iterations created
CreatedAccounted ==
    {f.name : f \in outdir} = UNION {log[i].created : i \in 1..Len(log)}

\* the file name has a peripheral part and it ends in _ex
IsExtensionFile(entry) ==
    /\ entry.ok
    /\ HasSourceExtension(entry.name)
    /\ Cardinality(Underscores(Stem(entry.name))) >= 2
    /\ EndsInEx(PeripheralOf(entry.name))

\* C2: a file whose peripheral part ends in _ex is classified as an extension
\* module; its header is not parsed and no output file is created for it.
C2_ExtensionModules ==
    /\ CreatedAccounted
    /\ \A i \in 1..Len(log) :
           IsExtensionFile(log[i].entry) =>
               /\ log[i].result = "err"
               /\ log[i].msg = "Skipping extension module, already processed in main module"
               /\ ~log[i].parsed
               /\ log[i].created = {}

\* an extension module has been met after a file was written
C2_Witness ==
    /\ Len(log) = 2
    /\ log[1].result = "ok"
    /\ log[2].entry = Path(<<"s", "t", "m", "3", "2", "f", "4", "x", "x", "_", "h", "a", "l", "_", "u", "a", "r", "t", "_", "e", "x", ".", "c">>)
    /\ log[2].result = "err"
    /\ outdir # {}

\* C3: a failing file is reported and skipped, every later file is still
\* processed, and the process ends with exit code zero however many files
\* failed.
C3_BatchProgress ==
    (pc \in {"exit", "panicked"}) =>
        /\ Len(log) = Len(files)
        /\ \A i \in 1..Len(log) : log[i].entry = files[i] /\ log[i].result \in {"ok", "err"}
        /\ exitCode = 0

\* the batch on the runs in which no file makes the synthesis panic
ProgressUnlessPanic ==
    (pc = "exit") =>
        /\ Len(log) = Len(files)
        /\ \A i \in 1..Len(log) : log[i].entry = files[i] /\ log[i].result \in {"ok", "err"}
        /\ exitCode = 0

\* the input's base name without its extension, the extension swapped for .hpp
SameBaseName(name) == Stem(name) \o <<".", "h", "p", "p">>

\* the input's base name without its version token, cut at its last `.`
BaseNameLessVersion(name) ==
    LET rest == AfterPrefixToken(Stem(name))
        dots == {i \in 1..Len(rest) : rest[i] = "."}
    IN  (IF dots = {} THEN rest ELSE SubSeq(rest, 1, Max(dots) - 1)) \o <<".", "h", "p", "p">>

\* C6 as stated: a converted input has exactly one output file, named as the
\* input with the extension swapped (stm32f4xx_hal_uart.c gives
\* stm32f4xx_hal_uart.hpp), and no other file is created for an input.
C6_SameBaseName ==
    /\ CreatedAccounted
    /\ \A i \in 1..Len(log) :
           /\ log[i].result = "ok" => log[i].created = {SameBaseName(log[i].entry.name)}
           /\ log[i].created # {} => log[i].created = {SameBaseName(log[i].entry.name)}

\* C6 amended: the output file is named as the input less its version token and
\* with the extension swapped (stm32f4xx_hal_uart.c gives hal_uart.hpp).
C6_NameLessVersion ==
    /\ CreatedAccounted
    /\ \A i \in 1..Len(log) :
           /\ log[i].result = "ok" => log[i].created = {BaseNameLessVersion(log[i].entry.name)}
           /\ log[i].created # {} => log[i].created = {BaseNameLessVersion(log[i].entry.name)}

\* the uart source has been converted and its output holds the generated code
C6_Witness ==
    /\ Len(log) >= 1
    /\ log[1].entry = Path(<<"s", "t", "m", "3", "2", "f", "4", "x", "x", "_", "h", "a", "l", "_", "u", "a", "r", "t", ".", "c">>)
    /\ log[1].result = "ok"
    /\ log[1].created = {<<"h", "a", "l", "_", "u", "a", "r", "t", ".", "h", "p", "p">>}
    /\ \E f \in outdir : f.name = <<"h", "a", "l", "_", "u", "a", "r", "t", ".", "h", "p", "p">> /\ f.content # Partial

====
